---- MODULE Spec2Model ----
(***************************************************************************)
(* A model of the Langton's-ant engine of src/sketch.js: the configuration *)
(* validator (validateAntConfig), the engine (class AntSim: setConfig,     *)
(* addAnt, step, resize) and the movement rule (Ant.move).                 *)
(*                                                                         *)
(* JavaScript values are modelled as tagged records so that the typeof     *)
(* tests of the validator can be computed.  Arrays are 0-based in the      *)
(* source and 1-based sequences here: index i of the source is element     *)
(* i + 1 of the sequence.  A grid row is a function from the keys that     *)
(* hold a value to that value: a JavaScript array accepts a write at any   *)
(* key, and reading a key that was never written yields undefined.  A      *)
(* configuration object is held by reference: the engine and the ants hold *)
(* the name of an object of Objects.                                       *)
(***************************************************************************)
EXTENDS Integers, Sequences, FiniteSets, TLC

(***************************************************************************)
(* Bounds of the model.                                                    *)
(***************************************************************************)
\* the grid has 1..MaxCells rows and 1..MaxCells columns
MaxCells == 2
\* at most MaxOps operations are called on the engine in a run
MaxOps == 3

(***************************************************************************)
(* JavaScript values.                                                      *)
(***************************************************************************)
Undefined == [t |-> "undefined"]
Null == [t |-> "null"]
Num(n) == [t |-> "number", v |-> n]
\* the number n + 1/2 (a number that is not an integer); v is its floor
Half(n) == [t |-> "number", v |-> n, half |-> TRUE]
Str(s) == [t |-> "string", v |-> s]
Arr(s) == [t |-> "array", v |-> s]
Obj(r) == [t |-> "object", v |-> r]

\* typeof v === 'object': true of objects, arrays and null
TypeofObject(v) == v.t \in {"object", "array", "null"}

\* !v : undefined, null, 0 and "" are falsy
Falsy(v) ==
  \/ v.t \in {"undefined", "null"}
  \/ (v.t = "number" /\ v.v = 0)
  \/ (v.t = "string" /\ v.v = "")

\* a property read obj.f: undefined when obj is not a plain object holding f
Field(obj, f) ==
  IF obj.t = "object" /\ f \in DOMAIN obj.v THEN obj.v[f] ELSE Undefined

\* a number is an integer
IsInteger(v) == v.t = "number" /\ "half" \notin DOMAIN v

\* ToNumber as applied by * and < : [nan, v, d], v the floor of the number
\* and d twice the number
NaN == [nan |-> TRUE, v |-> 0, d |-> 0]
Number(n) == [nan |-> FALSE, v |-> n, d |-> 2 * n]
ToNumber(v) ==
  CASE v.t = "number" ->
         [nan |-> FALSE, v |-> v.v, d |-> 2 * v.v + (IF IsInteger(v) THEN 0 ELSE 1)]
    [] v.t = "null" -> Number(0)
    [] v.t = "string" ->
         (CASE v.v = "" -> Number(0)
            [] v.v = "0" -> Number(0)
            [] v.v = "1" -> Number(1)
            [] v.v = "2" -> Number(2)
            [] OTHER -> NaN)
    [] OTHER -> NaN

\* a >= b of the source: false when either side is NaN
JsGeq(a, b) == ~a.nan /\ ~b.nan /\ a.d >= b.d

(***************************************************************************)
(* validateAntConfig: "ok" when the candidate is accepted, else the error  *)
(* thrown by the first failing check.                                      *)
(***************************************************************************)
\* the newColor check with an inclusive upper bound
NewColorOutOfRangeInclusive(obj, t) ==
  LET newColor == Field(t, "newColor")
  IN  \/ newColor.t # "number"
      \/ newColor.v < 0
      \/ JsGeq(ToNumber(newColor), [ToNumber(Field(obj, "colors")) EXCEPT !.d = @ + 2])

\* typeof t.newColor !== 'number' || t.newColor < 0 || t.newColor >= obj.colors
NewColorOutOfRange(obj, t) ==
  LET newColor == Field(t, "newColor")
  IN  \/ newColor.t # "number"
      \/ newColor.v < 0
      \/ JsGeq(ToNumber(newColor), ToNumber(Field(obj, "colors")))

\* t.turn !== 0 && t.turn !== 1
BadTurn(t) == Field(t, "turn") # Num(0) /\ Field(t, "turn") # Num(1)

\* the nextState check with an inclusive upper bound
NextStateOutOfRangeInclusive(obj, t) ==
  LET nextState == Field(t, "nextState")
      states == ToNumber(Field(obj, "states"))
  IN  \/ nextState.t # "number"
      \/ nextState.v < 0
      \/ JsGeq(ToNumber(nextState), [states EXCEPT !.d = @ + 2])

\* typeof t.nextState !== 'number' || t.nextState < 0 || t.nextState >= obj.states
NextStateOutOfRange(obj, t) ==
  LET nextState == Field(t, "nextState")
  IN  \/ nextState.t # "number"
      \/ nextState.v < 0
      \/ JsGeq(ToNumber(nextState), ToNumber(Field(obj, "states")))

\* the checks of one transition t (the body of the forEach callback); reading
\* a property of null raises a TypeError
TransitionError(obj, t) ==
  IF ~TypeofObject(t) THEN "must be an object"
  ELSE IF t.t = "null" THEN "TypeError"
  ELSE IF NewColorOutOfRange(obj, t) THEN "newColor out of range"
  ELSE IF BadTurn(t) THEN "turn must be 0 (left) or 1 (right)"
  ELSE IF NextStateOutOfRange(obj, t) THEN "nextState out of range"
  ELSE "ok"

\* obj.states * (obj.colors + 1): [nan, q], q four times the product
expectedTransitions(obj) ==
  LET s == ToNumber(Field(obj, "states"))
      c == ToNumber(Field(obj, "colors"))
  IN  IF s.nan \/ c.nan THEN [nan |-> TRUE, q |-> 0]
      ELSE [nan |-> FALSE, q |-> s.d * (c.d + 2)]

validateAntConfig(obj) ==
  IF Falsy(obj) \/ ~TypeofObject(obj) THEN "Config must be an object"
  ELSE IF Falsy(Field(obj, "name")) \/ Field(obj, "name").t # "string"
  THEN "Config must have a name"
  ELSE IF Field(obj, "colors").t # "number" \/ Field(obj, "colors").v < 1
  THEN "Config must have a positive integer colors"
  ELSE IF Field(obj, "transitions").t # "array"
  THEN "Config must have a transitions array"
  ELSE LET ts == Field(obj, "transitions").v
           e == expectedTransitions(obj)
       IN  IF e.nan \/ 4 * Len(ts) # e.q THEN "Expected transitions"
           ELSE IF \E i \in 1..Len(ts) : TransitionError(obj, ts[i]) # "ok"
           THEN LET i == CHOOSE k \in 1..Len(ts) :
                           /\ TransitionError(obj, ts[k]) # "ok"
                           /\ \A j \in 1..(k - 1) : TransitionError(obj, ts[j]) = "ok"
                IN  TransitionError(obj, ts[i])
           ELSE "ok"

(***************************************************************************)
(* Configurations: the presets of src/js/presetAnts.js and candidates a    *)
(* user may save as the custom configuration.                              *)
(***************************************************************************)
Transition(newColor, turn, nextState) ==
  Obj([newColor |-> Num(newColor), turn |-> Num(turn), nextState |-> Num(nextState)])

Candidate(name, states, colors, transitions) ==
  Obj([name |-> name, states |-> states, colors |-> colors,
       transitions |-> transitions])

classic ==
  Candidate(Str("Classic Langton's Ant"), Num(1), Num(2),
            Arr(<<Transition(1, 1, 0), Transition(0, 0, 0), Transition(0, 1, 0)>>))

\* a custom configuration with two states and four colours
custom ==
  Candidate(Str("custom"), Num(2), Num(4),
            Arr(<<Transition(3, 1, 1), Transition(0, 0, 0),
                  Transition(1, 1, 0), Transition(2, 0, 1),
                  Transition(1, 0, 0), Transition(2, 1, 1),
                  Transition(3, 0, 0), Transition(0, 1, 1),
                  Transition(0, 1, 0), Transition(0, 1, 0)>>))

\* a custom configuration with no state and no transition
noStates == Candidate(Str("empty"), Num(0), Num(1), Arr(<<>>))

\* the configuration objects of a run, by reference: the preset, and the
\* candidates a user types, each breaking at most one rule
Objects ==
  [classic |-> classic,
   custom |-> custom,
   noStates |-> noStates,
   notAnObject |-> Null,
   noName |-> Candidate(Str(""), Num(1), Num(2), Arr(<<>>)),
   noColors |-> Candidate(Str("custom"), Num(1), Num(0), Arr(<<>>)),
   noTransitions |-> Candidate(Str("custom"), Num(1), Num(2), Undefined),
   tooFew |-> Candidate(Str("custom"), Num(1), Num(2),
                Arr(<<Transition(1, 1, 0), Transition(0, 0, 0)>>)),
   tooMany |-> Candidate(Str("custom"), Num(1), Num(2),
                 Arr(<<Transition(1, 1, 0), Transition(0, 0, 0),
                       Transition(0, 0, 0), Transition(0, 0, 0)>>)),
   badColor |-> Candidate(Str("custom"), Num(1), Num(1),
                  Arr(<<Transition(1, 1, 0), Transition(0, 0, 0)>>)),
   badState |-> Candidate(Str("custom"), Num(1), Num(2),
                  Arr(<<Transition(1, 1, 1), Transition(1, 0, 1),
                        Transition(0, 1, 0)>>)),
   badTurn |-> Candidate(Str("custom"), Num(1), Num(1),
                 Arr(<<Transition(0, 2, 0), Transition(0, 0, 0)>>))]

Candidates == DOMAIN Objects

\* the configurations the engine is given, by reference: those that
\* validateAntConfig accepts (parseAntConfig and serializeAntConfig both
\* validate before a configuration reaches the engine)
Configs == {k \in Candidates : validateAntConfig(Objects[k]) = "ok"}

\* the reference null
NullRef == "null"

\* the fields of an accepted configuration as the engine reads them
colorsOf(config) == Objects[config].v.colors.v
statesOf(config) == ToNumber(Objects[config].v.states).v
transitionsOf(config) == Objects[config].v.transitions.v

newColorOf(t) == t.v.newColor.v
turnOf(t) == t.v.turn.v
nextStateOf(t) == t.v.nextState.v

(***************************************************************************)
(* IEEE 754 doubles, for the arithmetic of the step accumulator.  The      *)
(* values that arithmetic produces are non-negative multiples of 2^-57     *)
(* (the spacing of the doubles around 0.05, the smallest amount a tick     *)
(* adds), so a double x is held exactly as the integer x * 2^57, written   *)
(* in four limbs of LimbBits bits: <<f0, f1, f2, i>> is                    *)
(* i + (f2 * 2^38 + f1 * 2^19 + f0) / 2^57, i the integer part.  A result  *)
(* is rounded to the 53 significant bits of a double, ties to even.  The   *)
(* integer part stays below 2^14 in every run of the model.                *)
(***************************************************************************)
LimbBits == 19

Significand == 53

RECURSIVE Pow2(_)
Pow2(n) == IF n = 0 THEN 1 ELSE 2 * Pow2(n - 1)

Limb == Pow2(LimbBits)

Zero == <<0, 0, 0, 0>>

\* the double of a small non-negative integer
FromInteger(n) == <<0, 0, 0, n>>

RECURSIVE BitLen(_)
BitLen(n) == IF n = 0 THEN 0 ELSE 1 + BitLen(n \div 2)

\* the number of significant bits of x * 2^57
DoubleBitLen(a) ==
  CASE a[4] > 0 -> 3 * LimbBits + BitLen(a[4])
    [] a[3] > 0 -> 2 * LimbBits + BitLen(a[3])
    [] a[2] > 0 -> LimbBits + BitLen(a[2])
    [] OTHER -> BitLen(a[1])

\* the exact sum
ExactSum(a, b) ==
  LET s0 == a[1] + b[1]
      s1 == a[2] + b[2] + s0 \div Limb
      s2 == a[3] + b[3] + s1 \div Limb
  IN  <<s0 % Limb, s1 % Limb, s2 % Limb, a[4] + b[4] + s2 \div Limb>>

\* a, with a tail of num / den of a unit below it (0 <= num < den), rounded
\* to Significand bits, ties to even
RoundToDouble(a, num, den) ==
  LET q == DoubleBitLen(a) - Significand
  IN  IF q <= 0
      THEN \* every bit of a is kept: the tail decides
           IF 2 * num > den \/ (2 * num = den /\ a[1] % 2 = 1)
           THEN ExactSum(a, <<1, 0, 0, 0>>) ELSE a
      ELSE LET low == a[1] % Pow2(q)
               half == Pow2(q - 1)
               kept == [a EXCEPT ![1] = a[1] - low]
               odd == (a[1] \div Pow2(q)) % 2 = 1
               up == \/ low > half
                     \/ (low = half /\ num > 0)
                     \/ (low = half /\ num = 0 /\ odd)
           IN  IF up THEN ExactSum(kept, <<Pow2(q), 0, 0, 0>>) ELSE kept

\* a + b of the source
DoubleAdd(a, b) == RoundToDouble(ExactSum(a, b), 0, 1)

\* n / m of the source, n and m small positive integers
DoubleDivide(n, m) ==
  LET q3 == n \div m
      r3 == n % m
      q2 == (r3 * Limb) \div m
      r2 == (r3 * Limb) % m
      q1 == (r2 * Limb) \div m
      r1 == (r2 * Limb) % m
      q0 == (r1 * Limb) \div m
      r0 == (r1 * Limb) % m
  IN  RoundToDouble(<<q0, q1, q2, q3>>, r0, m)

\* Math.floor(a)
MathFloor(a) == a[4]

\* a - n of the source for the integer n = Math.floor(a): exact
FractionalPart(a) == [a EXCEPT ![4] = 0]

\* a < 1 and a >= 1 of a double
LessThanOne(a) == a[4] = 0

(***************************************************************************)
(* The slider mapping.  sliderToSpeed rounds 10^(5 v / 100) and            *)
(* speedToSlider rounds 20 log10(speed); both roundings are decided here   *)
(* exactly, on natural numbers of any size written in base 10^4, least     *)
(* significant digit first:                                                *)
(*   10^(v/20) < r + 1/2  iff  10^(v+20) < (10 r + 5)^20                   *)
(*   w - 1/2 <= 20 log10(s) < w + 1/2  iff  10^(2w-1) <= s^40 < 10^(2w+1)  *)
(* No power of ten is within a rounding error of these thresholds for the  *)
(* values of the slider, so the doubles of the source round the same way.  *)
(***************************************************************************)
\* the decimal digits of a natural number, most significant first
RECURSIVE DecimalDigits(_)
DecimalDigits(n) ==
  IF n < 10 THEN <<n>> ELSE Append(DecimalDigits(n \div 10), n % 10)

SPEED_MIN == 1

SPEED_MAX == 100000

SLIDER_STEPS == 100

Base == 10000

\* the natural number n < Base^2 in base Base
Natural(n) == IF n < Base THEN <<n>> ELSE <<n % Base, n \div Base>>

\* a * m + carry, m and carry below Base
RECURSIVE TimesDigit(_, _, _)
TimesDigit(a, m, carry) ==
  IF a = <<>> THEN (IF carry = 0 THEN <<>> ELSE <<carry>>)
  ELSE LET p == a[1] * m + carry
       IN  <<p % Base>> \o TimesDigit(Tail(a), m, p \div Base)

RECURSIVE Plus(_, _, _)
Plus(a, b, carry) ==
  IF a = <<>> /\ b = <<>> THEN (IF carry = 0 THEN <<>> ELSE <<carry>>)
  ELSE LET x == IF a = <<>> THEN 0 ELSE a[1]
           y == IF b = <<>> THEN 0 ELSE b[1]
           s == x + y + carry
       IN  <<s % Base>> \o Plus(IF a = <<>> THEN a ELSE Tail(a),
                                IF b = <<>> THEN b ELSE Tail(b), s \div Base)

RECURSIVE Times(_, _)
Times(a, b) ==
  IF b = <<>> THEN <<>>
  ELSE Plus(TimesDigit(a, b[1], 0), <<0>> \o Times(a, Tail(b)), 0)

\* a^n
RECURSIVE Power(_, _)
Power(a, n) ==
  IF n = 0 THEN <<1>>
  ELSE LET h == Power(a, n \div 2)
       IN  IF n % 2 = 0 THEN Times(h, h) ELSE Times(Times(h, h), a)

\* the number of decimal digits of a > 0 (no leading zero digit)
DecimalLength(a) ==
  4 * (Len(a) - 1) + Len(DecimalDigits(a[Len(a)]))

\* Math.log10(SPEED_MIN) and Math.log10(SPEED_MAX)
logMin == 0

logMax == 5

\* slider steps to a factor of ten: SLIDER_STEPS / (logMax - logMin)
StepsPerDecade == SLIDER_STEPS \div (logMax - logMin)

\* the greatest common divisor of a >= 0 and b > 0
RECURSIVE GCD(_, _)
GCD(a, b) == IF a = 0 THEN b ELSE GCD(b % a, a)

\* Math.pow(10, logMin + (logMax - logMin) * (v / SLIDER_STEPS)) < r + 1/2,
\* that is 10^(v / StepsPerDecade) < r + 1/2 with the fraction in lowest
\* terms p / q: 10^(p + q) < (10 r + 5)^q
PowerBelowHalfAbove(v, r) ==
  LET q == StepsPerDecade \div GCD(v, StepsPerDecade)
      p == v \div GCD(v, StepsPerDecade)
  IN  DecimalLength(Power(Natural(10 * r + 5), q)) > p + q

\* the least r in lo..hi with PowerBelowHalfAbove(v, r)
RECURSIVE LeastAbove(_, _, _)
LeastAbove(v, lo, hi) ==
  IF lo = hi THEN lo
  ELSE LET mid == (lo + hi) \div 2
       IN  IF PowerBelowHalfAbove(v, mid) THEN LeastAbove(v, lo, mid)
           ELSE LeastAbove(v, mid + 1, hi)

\* the first of r, 2r, 4r, ... with PowerBelowHalfAbove(v, r)
RECURSIVE FirstDoubleAbove(_, _)
FirstDoubleAbove(v, r) ==
  IF PowerBelowHalfAbove(v, r) THEN r ELSE FirstDoubleAbove(v, 2 * r)

\* sliderToSpeed(sliderValue): Math.round of the power, the least r with
\* the power below r + 1/2
sliderToSpeed(sliderValue) ==
  LET hi == FirstDoubleAbove(sliderValue, SPEED_MIN)
  IN  LeastAbove(sliderValue, IF hi = SPEED_MIN THEN hi ELSE hi \div 2 + 1, hi)

\* the inverse that truncates where the source rounds
speedToSliderTruncated(speed) ==
  (DecimalLength(Power(Natural(speed), StepsPerDecade)) - 1)

\* speedToSlider(speed): Math.round(20 * Math.log10(speed))
speedToSlider(speed) ==
  DecimalLength(Power(Natural(speed), 2 * StepsPerDecade)) \div 2

(***************************************************************************)
(* The state: the fields of the AntSim object, the globals of the rate     *)
(* controller and the candidate of the parser functions.                   *)
(***************************************************************************)
VARIABLES
  width, height,  \* this.width, this.height (pixels)
  rows, cols,     \* this.rows, this.cols
  config,         \* this.config, the default configuration
  grid,           \* this.grid: row index -> (key -> colour)
  ants,           \* this.ants, in the order they were added
  boundColors,    \* history: the colour counts of the configurations bound
                  \* to the ants added since the grid was last cleared
  lastOp,         \* the last operation called, its arguments and outcome
  nOps,           \* operations called so far (bounded)
  \* the rate controller: the globals of the page script
  paused,             \* paused
  speedSlider,        \* speedSlider.value()
  stepsPerSecond,     \* stepsPerSecond
  stepAccumulator,    \* stepAccumulator, a double (see Double below)
  simulationInterval, \* simulationInterval: 0 (null) or the id of a timer
  activeTimers,       \* the ids of the interval timers that are running
  lastTick,           \* what the last callback of the batch timer did
  sinceReset,         \* history: ticks and step() calls since the accumulator
                      \* was last set to zero
  nTicks,             \* callbacks of the batch timer so far (bounded)
  \* the configuration parser: a candidate and what was done with it
  obj,                \* the candidate handed to the parser functions
  result              \* the function last applied to it and its outcome

simVars == <<width, height, rows, cols, config, grid, ants, boundColors,
             lastOp, nOps>>

pageVars == <<paused, speedSlider, stepsPerSecond, stepAccumulator,
              simulationInterval, activeTimers, lastTick, sinceReset, nTicks>>

parserVars == <<obj, result>>

vars == <<simVars, pageVars, parserVars>>

\* constructor(config, width, height, gridSize = 10)
gridSize == 10

\* canvas sizes in pixels, of at least one cell each way: not multiples of
\* the cell size beyond the first
Sizes == {gridSize * n + 3 * (n - 1) : n \in 1..MaxCells}

\* the points addAnt is called with: the origin, a point that is outside a
\* grid of one column, one that is outside a grid of one row, and one
\* left of every grid
Points == {<<0, 0>>, <<1, 0>>, <<0, 1>>, <<-1, 0>>}

\* Math.floor(a / b) for a >= 0, b > 0
Floor(a, b) == a \div b

\* a % b of the source for b > 0: the result has the sign of the dividend
\* (-0 is read as 0: it indexes and compares as 0)
JsRem(a, b) == IF a >= 0 THEN a % b ELSE -((-a) % b)

\* Array.from({ length: rows }, () => Array(cols).fill(0))
BlankGrid(r, c) == [y \in 0..(r - 1) |-> [x \in 0..(c - 1) |-> 0]]

\* grid[y][x] = v : a write at any key of an existing row
WriteCell(g, y, x, v) ==
  [g EXCEPT ![y] = [k \in (DOMAIN g[y]) \cup {x} |-> IF k = x THEN v ELSE g[y][k]]]

(***************************************************************************)
(* class Ant                                                               *)
(***************************************************************************)
\* constructor(x, y, config)
Ant(x, y, cfg) ==
  [x |-> x, y |-> y, direction |-> 0, state |-> 0, config |-> cfg]

\* the rotation with left and right exchanged
TurnExchanged(direction, turn) == (direction + (IF turn = 0 THEN 1 ELSE 3)) % 4

\* this.direction = (this.direction + (t.turn === 0 ? 3 : 1)) % 4
Turn(direction, turn) == (direction + (IF turn = 0 THEN 3 ELSE 1)) % 4

\* one cell forward, stopping at the edges rather than wrapping
AdvanceClamped(ant, r, c) ==
  CASE ant.direction = 0 -> [ant EXCEPT !.y = IF ant.y > 0 THEN ant.y - 1 ELSE 0]
    [] ant.direction = 1 -> [ant EXCEPT !.x = IF ant.x < c - 1 THEN ant.x + 1 ELSE c - 1]
    [] ant.direction = 2 -> [ant EXCEPT !.y = IF ant.y < r - 1 THEN ant.y + 1 ELSE r - 1]
    [] ant.direction = 3 -> [ant EXCEPT !.x = IF ant.x > 0 THEN ant.x - 1 ELSE 0]

\* the switch on this.direction: one cell forward, wrapping
Advance(ant, r, c) ==
  CASE ant.direction = 0 -> [ant EXCEPT !.y = JsRem(ant.y - 1 + r, r)]
    [] ant.direction = 1 -> [ant EXCEPT !.x = JsRem(ant.x + 1, c)]
    [] ant.direction = 2 -> [ant EXCEPT !.y = JsRem(ant.y + 1, r)]
    [] ant.direction = 3 -> [ant EXCEPT !.x = JsRem(ant.x - 1 + c, c)]

\* let idx = this.state * colorCount + color (color a defined number)
PrimaryIndex(ant, color) == ant.state * colorsOf(ant.config) + color

\* idx = this.state * colorCount + (colorCount)
FallbackIndex(ant) ==
  ant.state * colorsOf(ant.config) + colorsOf(ant.config)

\* this.config.transitions[idx] is not undefined
HasTransition(cfg, idx) == (idx + 1) \in DOMAIN transitionsOf(cfg)

\* the lookup of move: which branch resolves, and the transition it yields.
\* color is undefined when the row holds nothing at key x: the index is then
\* NaN and the primary lookup yields undefined.
Lookup(ant, g) ==
  LET row == g[ant.y]
      known == ant.x \in DOMAIN row
      primary == known /\ HasTransition(ant.config, PrimaryIndex(ant, row[ant.x]))
      fallback == ~primary /\ HasTransition(ant.config, FallbackIndex(ant))
  IN  [branch |-> IF primary THEN "primary"
                  ELSE IF fallback THEN "fallback" ELSE "none",
       idx |-> IF primary THEN PrimaryIndex(ant, row[ant.x])
               ELSE FallbackIndex(ant)]

\* Ant.move(grid, rows, cols): the ant and the grid afterwards; threw when
\* grid[this.y] is undefined, so that reading its key x raises a TypeError
move(ant, g, r, c) ==
  IF ant.y \notin DOMAIN g
  THEN [threw |-> TRUE, ant |-> ant, grid |-> g]
  ELSE LET l == Lookup(ant, g)
       IN  IF l.branch = "none"
           THEN [threw |-> FALSE, ant |-> ant, grid |-> g]
           ELSE LET t == transitionsOf(ant.config)[l.idx + 1]
                    turned == [ant EXCEPT
                                 !.direction = Turn(ant.direction, turnOf(t)),
                                 !.state = nextStateOf(t)]
                IN  [threw |-> FALSE,
                     ant |-> Advance(turned, r, c),
                     grid |-> WriteCell(g, ant.y, ant.x, newColorOf(t))]

(***************************************************************************)
(* class AntSim                                                            *)
(***************************************************************************)
\* what one call of move did, for the record of a step: where the ant
\* stood, the colour it read (-1: undefined, or nothing read) and the
\* branch of the lookup that was taken
Visit(ant, g) ==
  IF ant.y \notin DOMAIN g
  THEN [x |-> ant.x, y |-> ant.y, color |-> -1, branch |-> "threw"]
  ELSE [x |-> ant.x, y |-> ant.y,
        color |-> IF ant.x \in DOMAIN g[ant.y] THEN g[ant.y][ant.x] ELSE -1,
        branch |-> Lookup(ant, g).branch]

\* step(): for (const ant of this.ants) ant.move(...), from ant i on; an
\* error raised by a move ends the loop and leaves what was done before it
RECURSIVE stepFrom(_, _, _, _, _, _)
stepFrom(i, as, g, r, c, trace) ==
  IF i > Len(as)
  THEN [threw |-> FALSE, ants |-> as, grid |-> g, trace |-> trace]
  ELSE LET m == move(as[i], g, r, c)
           seen == Append(trace, Visit(as[i], g))
       IN  IF m.threw
           THEN [threw |-> TRUE, ants |-> as, grid |-> g, trace |-> seen]
           ELSE stepFrom(i + 1, [as EXCEPT ![i] = m.ant], m.grid, r, c, seen)

\* a step in which every ant reads the grid as it was before the step
RECURSIVE stepSimultaneousFrom(_, _, _, _, _, _, _)
stepSimultaneousFrom(i, as, g0, g, r, c, trace) ==
  IF i > Len(as)
  THEN [threw |-> FALSE, ants |-> as, grid |-> g, trace |-> trace]
  ELSE LET m == move(as[i], g0, r, c)
           seen == Append(trace, Visit(as[i], g0))
       IN  IF m.threw
           THEN [threw |-> TRUE, ants |-> as, grid |-> g, trace |-> seen]
           ELSE stepSimultaneousFrom(i + 1, [as EXCEPT ![i] = m.ant], g0,
                  IF Lookup(as[i], g0).branch = "none" THEN g
                  ELSE WriteCell(g, as[i].y, as[i].x, m.grid[as[i].y][as[i].x]),
                  r, c, seen)

stepSimultaneous(as, g, r, c) == stepSimultaneousFrom(1, as, g, g, r, c, <<>>)

step(as, g, r, c) == stepFrom(1, as, g, r, c, <<>>)

\* a resize that allocates the new grid and copies nothing
ResizedCellBlank(oldGrid, oldRows, oldCols, newRows, newCols, y, x) == 0

\* the copy loops of resize: the cell of the new grid at (y, x)
ResizedCell(oldGrid, oldRows, oldCols, newRows, newCols, y, x) ==
  IF y < (IF oldRows < newRows THEN oldRows ELSE newRows)
     /\ x < (IF oldCols < newCols THEN oldCols ELSE newCols)
  THEN oldGrid[y][x] ELSE 0

\* a filter that keeps every ant
KeptAll(ant, r, c) == TRUE

\* the filter of resize: ant => ant.x < this.cols && ant.y < this.rows
Kept(ant, r, c) == ant.x < c /\ ant.y < r

\* some cell of the grid is not background
Painted(g) == \E y \in DOMAIN g : \E x \in DOMAIN g[y] : g[y][x] # 0

\* the record of a call: the operation, its arguments, whether it raised an
\* error, what each ant did (step), and the engine as the call found it
Call(op, x, y, cfg, threw, trace) ==
  [op |-> op, x |-> x, y |-> y, cfg |-> cfg, threw |-> threw, trace |-> trace,
   rows0 |-> rows, cols0 |-> cols, n0 |-> Len(ants), painted0 |-> Painted(grid)]

\* the globals of the page script as they are declared, before setup():
\* paused = false, stepsPerSecond = 1, simulationInterval = null,
\* stepAccumulator = 0; the slider does not exist yet
PageDeclared ==
  /\ paused = FALSE
  /\ speedSlider = 0
  /\ stepsPerSecond = 1
  /\ stepAccumulator = Zero
  /\ simulationInterval = 0
  /\ activeTimers = {}
  /\ lastTick = [ran |-> FALSE]
  /\ sinceReset = [ticks |-> 0, steps |-> 0, threw |-> FALSE, dropped |-> Zero]
  /\ nTicks = 0

\* no candidate has been handed to the parser functions
ParserIdle ==
  /\ obj = Undefined
  /\ result = [op |-> "none"]

\* new AntSim(presetAnts[currentConfigKey], w, h, 10)
AntSimNew(w, h) ==
  /\ width = w
  /\ height = h
  /\ rows = Floor(height, gridSize)
  /\ cols = Floor(width, gridSize)
  /\ config = "classic"
  /\ grid = BlankGrid(rows, cols)
  /\ ants = <<>>
  /\ boundColors = {}
  /\ lastOp = [op |-> "new", x |-> width, y |-> height, cfg |-> "classic",
               threw |-> FALSE, trace |-> <<>>,
               rows0 |-> 0, cols0 |-> 0, n0 |-> 0, painted0 |-> FALSE]
  /\ nOps = 0

\* the engine after its construction, in a window of some size
Init ==
  /\ PageDeclared
  /\ ParserIdle
  /\ \E w \in Sizes, h \in Sizes : AntSimNew(w, h)

\* a setConfig that keeps the ants
SetConfigKeepingAnts ==
  \E cfg \in Configs :
    /\ nOps < MaxOps
    /\ config' = cfg
    /\ rows' = Floor(height, gridSize)
    /\ cols' = Floor(width, gridSize)
    /\ grid' = BlankGrid(rows', cols')
    /\ lastOp' = Call("setConfig", 0, 0, cfg, FALSE, <<>>)
    /\ nOps' = nOps + 1
    /\ UNCHANGED <<width, height, ants, boundColors, pageVars, parserVars>>

\* setConfig(config)
SetConfig ==
  \E cfg \in Configs :
    /\ nOps < MaxOps
    /\ config' = cfg
    /\ rows' = Floor(height, gridSize)
    /\ cols' = Floor(width, gridSize)
    /\ grid' = BlankGrid(rows', cols')
    /\ ants' = <<>>
    /\ boundColors' = {}
    /\ lastOp' = Call("setConfig", 0, 0, cfg, FALSE, <<>>)
    /\ nOps' = nOps + 1
    /\ UNCHANGED <<width, height, pageVars, parserVars>>

\* config || this.config, with the default taken whatever was given
BoundConfigDefault(cfg, default) == default

\* config || this.config
BoundConfig(cfg, default) == IF cfg = NullRef THEN default ELSE cfg

\* addAnt(x, y, config = null); a call that is given the default
\* configuration itself is the call that is given none
AddAnt ==
  \E p \in Points, cfg \in (Configs \ {config}) \cup {NullRef} :
    /\ nOps < MaxOps
    /\ LET ant == Ant(p[1], p[2], BoundConfig(cfg, config))
       IN  /\ ants' = Append(ants, ant)
           /\ boundColors' = boundColors \cup {colorsOf(ant.config)}
    /\ lastOp' = Call("addAnt", p[1], p[2], cfg, FALSE, <<>>)
    /\ nOps' = nOps + 1
    /\ UNCHANGED <<width, height, rows, cols, config, grid, pageVars, parserVars>>

\* step()
Step ==
  /\ nOps < MaxOps
  /\ LET s == step(ants, grid, rows, cols)
     IN  /\ ants' = s.ants
         /\ grid' = s.grid
         /\ lastOp' = Call("step", 0, 0, NullRef, s.threw, s.trace)
  /\ nOps' = nOps + 1
  /\ UNCHANGED <<width, height, rows, cols, config, boundColors, pageVars, parserVars>>

\* resize(width, height)
Resize ==
  \E w \in Sizes, h \in Sizes :
    /\ nOps < MaxOps
    /\ width' = w
    /\ height' = h
    /\ rows' = Floor(h, gridSize)
    /\ cols' = Floor(w, gridSize)
    /\ grid' = [y \in 0..(rows' - 1) |-> [x \in 0..(cols' - 1) |->
                  ResizedCell(grid, rows, cols, rows', cols', y, x)]]
    /\ ants' = SelectSeq(ants, LAMBDA a : Kept(a, rows', cols'))
    /\ lastOp' = Call("resize", w, h, NullRef, FALSE, <<>>)
    /\ nOps' = nOps + 1
    /\ UNCHANGED <<config, boundColors, pageVars, parserVars>>

Next == SetConfig \/ AddAnt \/ Step \/ Resize

Spec == Init /\ [][Next]_vars

\* addAnt(x, y, config = null), called with a cell of the grid
AddAntInGrid ==
  \E p \in Points, cfg \in (Configs \ {config}) \cup {NullRef} :
    /\ nOps < MaxOps
    /\ 0 <= p[1] /\ p[1] < cols /\ 0 <= p[2] /\ p[2] < rows
    /\ LET ant == Ant(p[1], p[2], BoundConfig(cfg, config))
       IN  /\ ants' = Append(ants, ant)
           /\ boundColors' = boundColors \cup {colorsOf(ant.config)}
    /\ lastOp' = Call("addAnt", p[1], p[2], cfg, FALSE, <<>>)
    /\ nOps' = nOps + 1
    /\ UNCHANGED <<width, height, rows, cols, config, grid, pageVars, parserVars>>

\* the engine driven by callers that add ants inside the grid only
NextInGrid == SetConfig \/ AddAntInGrid \/ Step \/ Resize

SpecInGrid == Init /\ [][NextInGrid]_vars

(***************************************************************************)
(* The page: setup(), the batch timer of updateSimulationInterval, the     *)
(* pause button, the speed slider and mousePressed.                        *)
(***************************************************************************)
\* callbacks of the batch timer in a run
MaxTicks == 11

\* presses of the button, moves of the slider and clicks in a run
MaxEvents == 2

\* const batchInterval = 50 (ms)
batchInterval == 50

\* createSlider(0, 100, 20)
InitialSlider == 20

\* the slider values a run moves the slider to: 2 and 32 steps a second
SliderStops == {4, 30}

\* an update that clears no timer
ClearedNothing(interval, timers) == timers

\* if (simulationInterval) clearInterval(simulationInterval)
Cleared(interval, timers) ==
  IF interval # 0 THEN timers \ {interval} ELSE timers

\* the id setInterval returns: one that no running timer has
NewTimer(timers) ==
  CHOOSE n \in 1..(Cardinality(timers) + 1) :
    n \notin timers /\ \A m \in 1..(n - 1) : m \in timers

\* updateSimulationInterval(): the timer it leaves in simulationInterval and
\* the timers that run afterwards
updateSimulationInterval(interval, timers) ==
  LET rest == Cleared(interval, timers)
  IN  [interval |-> NewTimer(rest), timers |-> rest \cup {NewTimer(rest)}]

\* the state after setup() in a window of w by h pixels
Setup(w, h) ==
  /\ AntSimNew(w, h)
  /\ ParserIdle
  /\ paused = FALSE
  /\ speedSlider = InitialSlider
  /\ stepsPerSecond = sliderToSpeed(InitialSlider)
  /\ stepAccumulator = Zero
  /\ simulationInterval = updateSimulationInterval(0, {}).interval
  /\ activeTimers = updateSimulationInterval(0, {}).timers
  /\ lastTick = [ran |-> FALSE]
  /\ sinceReset = [ticks |-> 0, steps |-> 0, threw |-> FALSE, dropped |-> Zero]
  /\ nTicks = 0

\* the page after setup() in a square window of some size
InitPage == \E w \in Sizes : Setup(w, w)

\* for (let i = 0; i < n; i++) sim.step(): the engine afterwards, the
\* number of calls made and the last call; a call that raises an error
\* ends the loop.  stepAgain is the loop after a call, s what the call did
\* to the grid g it found
RECURSIVE stepTimes(_, _, _, _, _, _)
RECURSIVE stepAgain(_, _, _, _, _, _)
stepTimes(n, as, g, r, c, done) ==
  IF n = 0
  THEN [threw |-> FALSE, ants |-> as, grid |-> g, calls |-> done.calls,
        trace |-> done.trace, found |-> done.found]
  ELSE stepAgain(n, step(as, g, r, c), g, r, c, done)

stepAgain(n, s, g, r, c, done) ==
  IF s.threw
  THEN [threw |-> TRUE, ants |-> s.ants, grid |-> s.grid,
        calls |-> done.calls + 1, trace |-> s.trace, found |-> g]
  ELSE stepTimes(n - 1, s.ants, s.grid, r, c,
                 [calls |-> done.calls + 1, trace |-> s.trace, found |-> g])

\* the callback after its loop: added is the accumulator after the += of
\* line 185, s what the loop did; an error raised by step() leaves the
\* callback before the accumulator is decreased
Drained(added, s) ==
  /\ stepAccumulator' = IF s.threw THEN added ELSE FractionalPart(added)
  /\ ants' = s.ants
  /\ grid' = s.grid
  /\ lastOp' = IF s.calls = 0 THEN lastOp
               ELSE [op |-> "step", x |-> 0, y |-> 0, cfg |-> NullRef,
                     threw |-> s.threw, trace |-> s.trace,
                     rows0 |-> rows, cols0 |-> cols, n0 |-> Len(ants),
                     painted0 |-> Painted(s.found)]
  /\ lastTick' = [ran |-> TRUE, paused |-> FALSE,
                  before |-> stepAccumulator, rate |-> stepsPerSecond,
                  stepsThisBatch |-> MathFloor(added), calls |-> s.calls,
                  threw |-> s.threw]
  /\ sinceReset' = [sinceReset EXCEPT !.ticks = @ + 1,
                                       !.steps = @ + s.calls,
                                       !.threw = @ \/ s.threw]

\* the callback from const stepsThisBatch = Math.floor(stepAccumulator) on
Drain(added) ==
  Drained(added, stepTimes(MathFloor(added), ants, grid, rows, cols,
                           [calls |-> 0, trace |-> <<>>, found |-> grid]))

\* the callback of the batch timer when paused is false
Batch ==
  Drain(DoubleAdd(stepAccumulator,
                  DoubleDivide(stepsPerSecond * batchInterval, 1000)))

\* the callback of the batch timer when paused is true
Skipped ==
  /\ lastTick' = [ran |-> TRUE, paused |-> TRUE, before |-> stepAccumulator,
                  rate |-> stepsPerSecond, stepsThisBatch |-> 0, calls |-> 0,
                  threw |-> FALSE]
  /\ UNCHANGED <<stepAccumulator, ants, grid, lastOp, sinceReset>>

\* a callback that does not look at paused
TickIgnoringPause ==
  \E t \in activeTimers :
    /\ nTicks < MaxTicks
    /\ Batch
    /\ nTicks' = nTicks + 1
    /\ UNCHANGED <<width, height, rows, cols, config, boundColors, nOps,
                   paused, speedSlider, stepsPerSecond, simulationInterval,
                   activeTimers, parserVars>>

\* a callback of a running batch timer
Tick ==
  \E t \in activeTimers :
    /\ nTicks < MaxTicks
    /\ IF paused THEN Skipped ELSE Batch
    /\ nTicks' = nTicks + 1
    /\ UNCHANGED <<width, height, rows, cols, config, boundColors, nOps,
                   paused, speedSlider, stepsPerSecond, simulationInterval,
                   activeTimers, parserVars>>

\* pauseButton.mousePressed
PauseButton ==
  /\ nOps < MaxEvents
  /\ paused' = ~paused
  /\ IF ~paused' /\ paused
     THEN /\ stepAccumulator' = Zero
          /\ sinceReset' = [ticks |-> 0, steps |-> 0, threw |-> FALSE,
                       dropped |-> stepAccumulator]
          /\ simulationInterval' =
               updateSimulationInterval(simulationInterval, activeTimers).interval
          /\ activeTimers' =
               updateSimulationInterval(simulationInterval, activeTimers).timers
     ELSE UNCHANGED <<stepAccumulator, sinceReset, simulationInterval,
                      activeTimers>>
  /\ nOps' = nOps + 1
  /\ UNCHANGED <<width, height, rows, cols, config, grid, ants, boundColors,
                 lastOp, speedSlider, stepsPerSecond, lastTick, nTicks,
                 parserVars>>

\* a slider handler that keeps what the accumulator holds
SliderInputKeepingAccumulator(v) ==
  /\ speedSlider' = v
  /\ stepsPerSecond' = sliderToSpeed(v)
  /\ simulationInterval' =
       updateSimulationInterval(simulationInterval, activeTimers).interval
  /\ activeTimers' =
       updateSimulationInterval(simulationInterval, activeTimers).timers
  /\ nOps' = nOps + 1
  /\ UNCHANGED <<width, height, rows, cols, config, grid, ants, boundColors,
                 lastOp, paused, lastTick, nTicks, parserVars,
                 stepAccumulator, sinceReset>>

\* speedSlider.input, the slider at v
SliderInput(v) ==
  /\ speedSlider' = v
  /\ stepsPerSecond' = sliderToSpeed(v)
  /\ stepAccumulator' = Zero
  /\ sinceReset' = [ticks |-> 0, steps |-> 0, threw |-> FALSE,
                       dropped |-> stepAccumulator]
  /\ simulationInterval' =
       updateSimulationInterval(simulationInterval, activeTimers).interval
  /\ activeTimers' =
       updateSimulationInterval(simulationInterval, activeTimers).timers
  /\ nOps' = nOps + 1
  /\ UNCHANGED <<width, height, rows, cols, config, grid, ants, boundColors,
                 lastOp, paused, lastTick, nTicks, parserVars>>

\* the slider is moved to one of the stops
SpeedSlider ==
  \E v \in SliderStops : nOps < MaxEvents /\ SliderInput(v)

\* the places of the mouse: the corners of the canvas
MousePoints == {<<0, 0>>, <<width - 1, height - 1>>}

\* mousePressed() on the canvas: sim.addAnt(gridX, gridY, currentAntConfig),
\* currentAntConfig a copy of the preset
MousePressed ==
  \E m \in MousePoints :
    /\ nOps < MaxEvents
    /\ m[1] >= 0 /\ m[1] < width /\ m[2] >= 0 /\ m[2] < height
    /\ LET gridX == Floor(m[1], gridSize)
           gridY == Floor(m[2], gridSize)
           ant == Ant(gridX, gridY, BoundConfig("classic", config))
       IN  /\ ants' = Append(ants, ant)
           /\ boundColors' = boundColors \cup {colorsOf(ant.config)}
           /\ lastOp' = Call("addAnt", gridX, gridY, "classic", FALSE, <<>>)
    /\ nOps' = nOps + 1
    /\ UNCHANGED <<width, height, rows, cols, config, grid, pageVars,
                   parserVars>>

NextPage == Tick \/ PauseButton \/ SpeedSlider \/ MousePressed

SpecPage == InitPage /\ [][NextPage]_vars

\* a callback of the timer can run: a timer is active (and the run has
\* callbacks left)
TickEnabled == activeTimers # {} /\ nTicks < MaxTicks

\* setInterval calls the callback again after every batchInterval while the
\* timer is not cleared: weak fairness of Tick, with ENABLED <<Tick>>_vars
\* written as TickEnabled and <<Tick>>_vars as the steps that count a
\* callback
TimerKeepsFiring ==
  []<>(~TickEnabled) \/ []<><<nTicks' # nTicks>>_vars

\* the page with a timer that keeps firing
SpecLive == InitPage /\ [][NextPage]_vars /\ TimerKeepsFiring

\* the slider is moved once, to any of its values
SliderMoved ==
  \E v \in 0..SLIDER_STEPS : nOps = 0 /\ SliderInput(v)

SpecSlider == Setup(gridSize, gridSize) /\ [][SliderMoved]_vars

(***************************************************************************)
(* The parser functions: validateAntConfig with the values it interpolates *)
(* into its message, JSON.stringify and JSON.parse, serializeAntConfig and *)
(* parseAntConfig.  A JSON text is a sequence of tokens; a number is       *)
(* written in decimal digits and read back from them.                      *)
(***************************************************************************)
\* the longest transitions array of a candidate
MaxTransitions == 3

TransitionMessages ==
  {"must be an object", "TypeError", "newColor out of range",
   "turn must be 0 (left) or 1 (right)", "nextState out of range"}

\* the error validateAntConfig throws: the message, the index i that the
\* messages of the forEach callback carry (-1: none) and the count that the
\* message of the length check carries (none: NaN with q = -1)
thrown(candidate) ==
  LET message == validateAntConfig(candidate)
      ts == Field(candidate, "transitions").v
  IN  [message |-> message,
       i |-> IF message \in TransitionMessages
             THEN (CHOOSE k \in 1..Len(ts) :
                     /\ TransitionError(candidate, ts[k]) # "ok"
                     /\ \A j \in 1..(k - 1) : TransitionError(candidate, ts[j]) = "ok") - 1
             ELSE -1,
       expected |-> IF message = "Expected transitions"
                    THEN expectedTransitions(candidate)
                    ELSE [nan |-> TRUE, q |-> -1]]

\* the property names of a configuration and of a transition, in the order
\* the objects of the page are written with
PropertyOrder ==
  <<"name", "states", "colors", "transitions", "newColor", "turn", "nextState">>

\* the own properties JSON.stringify writes: those whose value is defined
OwnKeys(v) ==
  SelectSeq(PropertyOrder,
            LAMBDA f : f \in DOMAIN v.v /\ v.v[f].t # "undefined")

\* a number written as a string
NumberTokenQuoted(v) == [k |-> "string", v |-> "number"]

\* the text of a number: sign, integer digits, fraction digits
NumberToken(v) ==
  LET neg == ToNumber(v).d < 0
      whole == IF IsInteger(v) THEN (IF neg THEN -v.v ELSE v.v)
               ELSE (IF neg THEN -v.v - 1 ELSE v.v)
  IN  [k |-> "number", neg |-> neg, int |-> DecimalDigits(whole),
       frac |-> IF IsInteger(v) THEN <<>> ELSE <<5>>]

\* a line break followed by the indentation of the depth, 2 spaces a level
Newline(depth) == [k |-> "newline", indent |-> 2 * depth]

RECURSIVE stringify(_, _)
RECURSIVE stringifyElements(_, _, _)
RECURSIVE stringifyMembers(_, _, _, _)

stringifyElements(es, i, depth) ==
  IF i > Len(es) THEN <<>>
  ELSE <<Newline(depth)>> \o stringify(es[i], depth)
       \o (IF i < Len(es) THEN <<[k |-> ","]>> ELSE <<>>)
       \o stringifyElements(es, i + 1, depth)

stringifyMembers(r, keys, i, depth) ==
  IF i > Len(keys) THEN <<>>
  ELSE <<Newline(depth), [k |-> "string", v |-> keys[i]], [k |-> ":"]>>
       \o stringify(r[keys[i]], depth)
       \o (IF i < Len(keys) THEN <<[k |-> ","]>> ELSE <<>>)
       \o stringifyMembers(r, keys, i + 1, depth)

\* JSON.stringify(v, null, 2) of a value nested depth levels deep; an
\* undefined element of an array is written null
stringify(v, depth) ==
  CASE v.t \in {"null", "undefined"} -> <<[k |-> "null"]>>
    [] v.t = "number" -> <<NumberToken(v)>>
    [] v.t = "string" -> <<[k |-> "string", v |-> v.v]>>
    [] v.t = "array" ->
         IF v.v = <<>> THEN <<[k |-> "["], [k |-> "]"]>>
         ELSE <<[k |-> "["]>> \o stringifyElements(v.v, 1, depth + 1)
              \o <<Newline(depth), [k |-> "]"]>>
    [] v.t = "object" ->
         IF OwnKeys(v) = <<>> THEN <<[k |-> "{"], [k |-> "}"]>>
         ELSE <<[k |-> "{"]>> \o stringifyMembers(v.v, OwnKeys(v), 1, depth + 1)
              \o <<Newline(depth), [k |-> "}"]>>

JSONstringify(v) == stringify(v, 0)

\* serializeAntConfig(obj): the error of the validation, and the text
serializeAntConfig(candidate) ==
  IF validateAntConfig(candidate) # "ok"
  THEN [error |-> thrown(candidate), json |-> <<>>]
  ELSE [error |-> thrown(candidate), json |-> JSONstringify(candidate)]

RECURSIVE DigitsValue(_)
DigitsValue(ds) ==
  IF ds = <<>> THEN 0
  ELSE 10 * DigitsValue(SubSeq(ds, 1, Len(ds) - 1)) + ds[Len(ds)]

\* the number a number token denotes
NumberOfToken(tok) ==
  LET n == DigitsValue(tok.int)
  IN  IF tok.frac = <<>> THEN Num(IF tok.neg THEN -n ELSE n)
      ELSE IF tok.neg THEN Half(-n - 1) ELSE Half(n)

Failed == [ok |-> FALSE, v |-> Undefined, next |-> 0]

Parsed(v, next) == [ok |-> TRUE, v |-> v, next |-> next]

\* the kind of token i of a text, "end" past its last token
Kind(ts, i) == IF i \in 1..Len(ts) THEN ts[i].k ELSE "end"

EmptyObject == [f \in {} |-> Undefined]

RECURSIVE parseValue(_, _)
RECURSIVE parseElements(_, _, _)
RECURSIVE parseMembers(_, _, _)

parseElements(ts, i, acc) ==
  LET e == parseValue(ts, i)
  IN  IF ~e.ok THEN Failed
      ELSE CASE Kind(ts, e.next) = "," ->
                  parseElements(ts, e.next + 1, Append(acc, e.v))
             [] Kind(ts, e.next) = "]" ->
                  Parsed(Arr(Append(acc, e.v)), e.next + 1)
             [] OTHER -> Failed

\* a key given twice keeps its last value
parseMembers(ts, i, r) ==
  IF Kind(ts, i) # "string" \/ Kind(ts, i + 1) # ":" THEN Failed
  ELSE LET e == parseValue(ts, i + 2)
           r2 == (ts[i].v :> e.v) @@ r
       IN  IF ~e.ok THEN Failed
           ELSE CASE Kind(ts, e.next) = "," -> parseMembers(ts, e.next + 1, r2)
                  [] Kind(ts, e.next) = "}" -> Parsed(Obj(r2), e.next + 1)
                  [] OTHER -> Failed

parseValue(ts, i) ==
  CASE Kind(ts, i) = "null" -> Parsed(Null, i + 1)
    [] Kind(ts, i) = "number" -> Parsed(NumberOfToken(ts[i]), i + 1)
    [] Kind(ts, i) = "string" -> Parsed(Str(ts[i].v), i + 1)
    [] Kind(ts, i) = "[" ->
         IF Kind(ts, i + 1) = "]" THEN Parsed(Arr(<<>>), i + 2)
         ELSE parseElements(ts, i + 1, <<>>)
    [] Kind(ts, i) = "{" ->
         IF Kind(ts, i + 1) = "}" THEN Parsed(Obj(EmptyObject), i + 2)
         ELSE parseMembers(ts, i + 1, EmptyObject)
    [] OTHER -> Failed

\* JSON.parse(text): white space is skipped, and the whole text is one value
JSONparse(text) ==
  LET ts == SelectSeq(text, LAMBDA tok : tok.k # "newline")
      e == parseValue(ts, 1)
  IN  IF e.ok /\ e.next = Len(ts) + 1 THEN e ELSE Failed

\* parseAntConfig(json): the error thrown ("SyntaxError" by JSON.parse, else
\* that of the validation) and the object returned
parseAntConfig(json) ==
  LET e == JSONparse(json)
  IN  IF ~e.ok
      THEN [error |-> [message |-> "SyntaxError", i |-> -1,
                       expected |-> [nan |-> TRUE, q |-> -1]],
            parsed |-> Undefined]
      ELSE [error |-> thrown(e.v),
            parsed |-> IF validateAntConfig(e.v) = "ok" THEN e.v ELSE Undefined]

\* the candidates handed to the parser functions: values that are no
\* object, and objects whose every property is drawn from a few values
NameInputs == {Str("ant"), Str(""), Num(1)}

StatesInputs == {Num(0), Num(1), Num(2), Half(0), Undefined}

ColorsInputs == {Num(0), Num(1), Num(2), Half(1), Str("2")}

TransitionInputs ==
  {Transition(0, 0, 0), Transition(1, 1, 0), Transition(0, 1, 1),
   Transition(0, 2, 0),
   Obj([newColor |-> Half(0), turn |-> Num(0), nextState |-> Num(0)]),
   Null, Num(3)}

TransitionsInputs ==
  {Undefined} \cup
  {Arr(ts) : ts \in UNION {[1..n -> TransitionInputs] : n \in 0..MaxTransitions}}

CandidateInputs ==
  {Undefined, Null, Num(1), Str("ant"), Arr(<<>>)} \cup
  {Candidate(n, s, c, ts) : n \in NameInputs, s \in StatesInputs,
                            c \in ColorsInputs, ts \in TransitionsInputs}

\* a candidate is at hand and no function has been applied to it
InitParser ==
  /\ PageDeclared
  /\ AntSimNew(gridSize, gridSize)
  /\ obj \in CandidateInputs
  /\ result = [op |-> "none"]

\* validateAntConfig(obj)
Validate ==
  /\ result.op = "none"
  /\ result' = [op |-> "validateAntConfig", error |-> thrown(obj)]
  /\ UNCHANGED <<obj, simVars, pageVars>>

\* serializeAntConfig(obj)
Serialize ==
  /\ result.op = "none"
  /\ result' = [op |-> "serializeAntConfig",
                error |-> serializeAntConfig(obj).error,
                json |-> serializeAntConfig(obj).json]
  /\ UNCHANGED <<obj, simVars, pageVars>>

\* parseAntConfig(json) of the text that serializeAntConfig returned
Parse ==
  /\ result.op = "serializeAntConfig"
  /\ result.error.message = "ok"
  /\ result' = [op |-> "parseAntConfig",
                json |-> result.json,
                error |-> parseAntConfig(result.json).error,
                parsed |-> parseAntConfig(result.json).parsed]
  /\ UNCHANGED <<obj, simVars, pageVars>>

NextParser == Validate \/ Serialize \/ Parse

SpecParser == InitParser /\ [][NextParser]_vars

(***************************************************************************)
(* Helpers of the properties.                                              *)
(***************************************************************************)
\* the colour held at (y, x), -1 when the grid holds nothing there
ColorAt(g, y, x) ==
  IF y \in DOMAIN g /\ x \in DOMAIN g[y] THEN g[y][x] ELSE -1

InGrid(x, y, r, c) == 0 <= x /\ x < c /\ 0 <= y /\ y < r

\* the ants before ant j that stand on the cell of ant j
Before(as, j) == {i \in 1..(j - 1) : as[i].x = as[j].x /\ as[i].y = as[j].y}

Last(S) == CHOOSE i \in S : \A k \in S : k <= i

\* the colour ant j finds on its cell when its turn comes in a step from
\* (as, g): the colour left there by the last earlier ant on that cell, which
\* itself found what the ants before it left
RECURSIVE FoundBy(_, _, _, _, _)
FoundBy(as, g, r, c, j) ==
  IF Before(as, j) = {} THEN ColorAt(g, as[j].y, as[j].x)
  ELSE LET i == Last(Before(as, j))
           found == FoundBy(as, g, r, c, i)
           gi == IF found = -1 THEN g ELSE WriteCell(g, as[i].y, as[i].x, found)
       IN  ColorAt(move(as[i], gi, r, c).grid, as[j].y, as[j].x)

\* what a step does when it moves every ant once, in list order, each ant
\* finding what the ants before it left: the j-th move is made by the j-th
\* ant from where it stood before the step, on the colour FoundBy gives
SequentialStep ==
  /\ Len(ants') = Len(ants)
  /\ Len(lastOp'.trace) = Len(ants)
  /\ \A j \in 1..Len(ants) :
       LET found == FoundBy(ants, grid, rows, cols, j)
           gj == IF found = -1 THEN grid
                 ELSE WriteCell(grid, ants[j].y, ants[j].x, found)
       IN  /\ lastOp'.trace[j].x = ants[j].x
           /\ lastOp'.trace[j].y = ants[j].y
           /\ lastOp'.trace[j].color = found
           /\ ants'[j] = move(ants[j], gj, rows, cols).ant

(***************************************************************************)
(* C1: every step moves every ant exactly once, in list order, and an ant  *)
(* looks up the colour that the last earlier ant on its cell repainted it  *)
(* to in the same step, not the colour of before the step.                 *)
(***************************************************************************)
C1_StepAdvancesEveryAnt ==
  [][lastOp'.op = "step" => (~lastOp'.threw /\ SequentialStep)]_vars

\* C1 for the steps that complete: such a step is sequential
C1_StepIsSequential ==
  [][(lastOp'.op = "step" /\ ~lastOp'.threw) => SequentialStep]_vars

\* a step in which an ant read a colour that an earlier ant of the same step
\* had just painted on the cell they shared
C1_Witness ==
  /\ lastOp.op = "step"
  /\ ~lastOp.threw
  /\ ~lastOp.painted0
  /\ \E i, j \in 1..Len(lastOp.trace) :
       /\ i < j
       /\ lastOp.trace[i].x = lastOp.trace[j].x
       /\ lastOp.trace[i].y = lastOp.trace[j].y
       /\ lastOp.trace[i].color = 0
       /\ lastOp.trace[j].color > 0

(***************************************************************************)
(* C2: no call of step, addAnt or resize raises an error, whatever the     *)
(* coordinates the ants were added with.                                   *)
(***************************************************************************)
C2_NoCallFails == ~lastOp.threw

BoundColor(color) == color = 0 \/ \E n \in boundColors : color \in 0..(n - 1)

C5_ResizeKeepsInGridAnts ==
  [][lastOp'.op = "resize" =>
       ants' = SelectSeq(ants, LAMBDA a : InGrid(a.x, a.y, rows', cols'))]_vars

Min(a, b) == IF a < b THEN a ELSE b

(***************************************************************************)
(* C6: resize keeps the grid content of the overlap: the new grid has the  *)
(* new rows x cols cells; a cell at (row, col) with row < min(oldRows,     *)
(* newRows) and col < min(oldCols, newCols) holds what the old grid held   *)
(* there, and every other cell is background.                              *)
(***************************************************************************)
C6_ResizeKeepsOverlap ==
  [][lastOp'.op = "resize" =>
       /\ rows' = Floor(lastOp'.y, gridSize)
       /\ cols' = Floor(lastOp'.x, gridSize)
       /\ DOMAIN grid' = 0..(rows' - 1)
       /\ \A y \in 0..(rows' - 1) :
            /\ DOMAIN grid'[y] = 0..(cols' - 1)
            /\ \A x \in 0..(cols' - 1) :
                 grid'[y][x] = IF y < Min(rows, rows') /\ x < Min(cols, cols')
                               THEN grid[y][x] ELSE 0]_vars

\* a resize of a painted grid to more rows that has kept a painted cell
C6_Witness ==
  /\ lastOp.op = "resize"
  /\ lastOp.painted0
  /\ lastOp.rows0 < rows
  /\ Painted(grid)

\* x and y are the same cell of a line of n cells that wraps
SameCell(x, y, n) == (x - y) % n = 0

(***************************************************************************)
(* C7: when the lookup of an ant resolves a transition (newColor, turn,    *)
(* nextState), move repaints the cell the ant stands on to newColor and    *)
(* no other cell, turns the ant to (direction + 3) mod 4 for turn 0 and    *)
(* (direction + 1) mod 4 for turn 1, sets its state to nextState and       *)
(* advances it one cell in the new direction.                              *)
(***************************************************************************)
C7_MoveRule ==
  \A i \in 1..Len(ants) :
    LET a == ants[i]
    IN  (a.y \in DOMAIN grid /\ Lookup(a, grid).branch # "none") =>
          LET t == transitionsOf(a.config)[Lookup(a, grid).idx + 1]
              m == move(a, grid, rows, cols)
              d == m.ant.direction
          IN  /\ ~m.threw
              /\ DOMAIN m.grid = DOMAIN grid
              /\ \A y \in DOMAIN grid :
                   /\ DOMAIN m.grid[y] =
                        DOMAIN grid[y] \cup (IF y = a.y THEN {a.x} ELSE {})
                   /\ \A x \in DOMAIN m.grid[y] :
                        m.grid[y][x] = IF y = a.y /\ x = a.x
                                       THEN newColorOf(t) ELSE grid[y][x]
              /\ turnOf(t) = 0 => d = (a.direction + 3) % 4
              /\ turnOf(t) = 1 => d = (a.direction + 1) % 4
              /\ turnOf(t) \in {0, 1}
              /\ m.ant.state = nextStateOf(t)
              /\ m.ant.config = a.config
              /\ d = 0 => m.ant.x = a.x /\ SameCell(m.ant.y, a.y - 1, rows)
              /\ d = 1 => m.ant.y = a.y /\ SameCell(m.ant.x, a.x + 1, cols)
              /\ d = 2 => m.ant.x = a.x /\ SameCell(m.ant.y, a.y + 1, rows)
              /\ d = 3 => m.ant.y = a.y /\ SameCell(m.ant.x, a.x - 1, cols)
              /\ InGrid(a.x, a.y, rows, cols)
                   => InGrid(m.ant.x, m.ant.y, rows, cols)

\* after a step that has put an ant into state 1, that ant stands on a cell
\* whose lookup resolves
C7_Witness ==
  /\ lastOp.op = "step"
  /\ \E i \in 1..Len(ants) :
       /\ i <= Len(lastOp.trace)
       /\ lastOp.trace[i].branch = "primary"
       /\ ants[i].state = 1
       /\ ants[i].y \in DOMAIN grid
       /\ Lookup(ants[i], grid).branch = "primary"

\* n advances of an ant
RECURSIVE AdvanceTimes(_, _, _, _)
AdvanceTimes(ant, r, c, n) ==
  IF n = 0 THEN ant ELSE AdvanceTimes(Advance(ant, r, c), r, c, n - 1)

(***************************************************************************)
(* C8: movement wraps: an ant inside the grid that advances off an edge    *)
(* reappears at the opposite edge with its other coordinate unchanged, and *)
(* rows advances up or down, or cols advances left or right, bring it back *)
(* to where it was; the ants moved by a step from inside the grid are one  *)
(* cell further in their new direction, wrapped.                           *)
(***************************************************************************)
C8_MovementWraps ==
  /\ \A i \in 1..Len(ants) : \A d \in 0..3 :
       LET a == [ants[i] EXCEPT !.direction = d]
           b == Advance(a, rows, cols)
       IN  InGrid(a.x, a.y, rows, cols) =>
             /\ (d = 0 /\ a.y = 0) => (b.y = rows - 1 /\ b.x = a.x)
             /\ (d = 1 /\ a.x = cols - 1) => (b.x = 0 /\ b.y = a.y)
             /\ (d = 2 /\ a.y = rows - 1) => (b.y = 0 /\ b.x = a.x)
             /\ (d = 3 /\ a.x = 0) => (b.x = cols - 1 /\ b.y = a.y)
             /\ AdvanceTimes(a, rows, cols, IF d \in {0, 2} THEN rows ELSE cols) = a
  /\ lastOp.op = "step" =>
       \A i \in 1..Len(lastOp.trace) :
         LET v == lastOp.trace[i]
             a == ants[i]
         IN  (v.branch \in {"primary", "fallback"} /\ InGrid(v.x, v.y, rows, cols)) =>
               /\ a.direction = 0 => (a.x = v.x /\ a.y = (v.y - 1) % rows)
               /\ a.direction = 1 => (a.y = v.y /\ a.x = (v.x + 1) % cols)
               /\ a.direction = 2 => (a.x = v.x /\ a.y = (v.y + 1) % rows)
               /\ a.direction = 3 => (a.y = v.y /\ a.x = (v.x - 1) % cols)

\* a step in which an ant left the grid by its left edge and reappeared in
\* the last column
C8_Witness ==
  /\ lastOp.op = "step"
  /\ cols >= 2
  /\ \E i \in 1..Len(lastOp.trace) :
       /\ lastOp.trace[i].branch \in {"primary", "fallback"}
       /\ lastOp.trace[i].x = 0
       /\ lastOp.trace[i].y \in 0..(rows - 1)
       /\ ants[i].direction = 3
       /\ ants[i].x = cols - 1

(***************************************************************************)
(* C9: setConfig(cfg) is a hard reset: after it the default configuration  *)
(* is cfg, the grid has the rows x cols cells it had, all background, and  *)
(* the list of ants is empty.                                              *)
(***************************************************************************)
C9_SetConfigResets ==
  lastOp.op = "setConfig" =>
    /\ config = lastOp.cfg
    /\ rows = lastOp.rows0
    /\ cols = lastOp.cols0
    /\ DOMAIN grid = 0..(rows - 1)
    /\ \A y \in 0..(rows - 1) :
         /\ DOMAIN grid[y] = 0..(cols - 1)
         /\ \A x \in 0..(cols - 1) : grid[y][x] = 0
    /\ ants = <<>>

\* a setConfig of another configuration on an engine with ants and paint
C9_Witness ==
  /\ lastOp.op = "setConfig"
  /\ lastOp.n0 > 0
  /\ lastOp.painted0
  /\ lastOp.cfg # "classic"

(***************************************************************************)
(* C10: addAnt(x, y, cfg) appends one ant at (x, y) with direction 0 and   *)
(* state 0, bound to cfg if given and else to the default configuration,   *)
(* and changes neither the grid nor the ants already there; no later step  *)
(* or resize changes the configuration an ant is bound to.                 *)
(***************************************************************************)
C10_AddAntAppendsBound ==
  [][/\ lastOp'.op = "addAnt" =>
          /\ ants' = Append(ants,
                       [x |-> lastOp'.x, y |-> lastOp'.y, direction |-> 0,
                        state |-> 0,
                        config |-> IF lastOp'.cfg = NullRef THEN config
                                   ELSE lastOp'.cfg])
          /\ grid' = grid
          /\ config' = config
          /\ rows' = rows
          /\ cols' = cols
     /\ lastOp'.op = "step" =>
          /\ Len(ants') = Len(ants)
          /\ \A i \in 1..Len(ants) : ants'[i].config = ants[i].config
     /\ lastOp'.op = "resize" =>
          ants' = SelectSeq(ants, LAMBDA a : \E k \in 1..Len(ants') : ants'[k] = a)
    ]_vars

\* an addAnt without a configuration on an engine whose first ant is bound
\* to a configuration other than the default
C10_Witness ==
  /\ lastOp.op = "addAnt"
  /\ lastOp.cfg = NullRef
  /\ lastOp.n0 >= 1
  /\ Len(ants) = lastOp.n0 + 1
  /\ ants[1].config # config
  /\ ants[Len(ants)].config = config

(***************************************************************************)
(* The rules of a configuration, as the specification words them.          *)
(***************************************************************************)
\* a structured value: neither a scalar nor absent
Structured(c) == c.t \in {"object", "array"}

NonEmptyText(v) == v.t = "string" /\ v.v # ""

\* v is an integer in [lo, hi), hi given as twice its value
IntegerWithin(v, lo, hi2) == IsInteger(v) /\ lo <= v.v /\ 2 * v.v < hi2

ValidColorCount(c) == IsInteger(Field(c, "colors")) /\ Field(c, "colors").v >= 1

\* the length of transitions is states * (colors + 1), states a number
ValidTransitionCount(c) ==
  /\ Field(c, "states").t = "number"
  /\ 4 * Len(Field(c, "transitions").v)
       = ToNumber(Field(c, "states")).d * (ToNumber(Field(c, "colors")).d + 2)

ValidNewColor(c, t) ==
  IntegerWithin(Field(t, "newColor"), 0, ToNumber(Field(c, "colors")).d)

ValidTurn(t) == IsInteger(Field(t, "turn")) /\ Field(t, "turn").v \in {0, 1}

ValidNextState(c, t) ==
  IntegerWithin(Field(t, "nextState"), 0, ToNumber(Field(c, "states")).d)

\* the candidate meets every rule
WellFormed(c) ==
  /\ Structured(c)
  /\ NonEmptyText(Field(c, "name"))
  /\ ValidColorCount(c)
  /\ Field(c, "transitions").t = "array"
  /\ ValidTransitionCount(c)
  /\ \A i \in 1..Len(Field(c, "transitions").v) :
       LET t == Field(c, "transitions").v[i]
       IN  ValidNewColor(c, t) /\ ValidTurn(t) /\ ValidNextState(c, t)

(***************************************************************************)
(* C11: validateAntConfig accepts a candidate if and only if it is a       *)
(* record whose name is non-empty text, whose colors is an integer >= 1,   *)
(* whose transitions is a sequence of exactly states * (colors + 1)        *)
(* entries, each with newColor an integer in [0, colors), turn 0 or 1 and  *)
(* nextState an integer in [0, states); any other candidate is rejected.   *)
(***************************************************************************)
C11_AcceptsIffWellFormed ==
  result.op = "validateAntConfig" =>
    ((result.error.message = "ok") <=> WellFormed(obj))

\* C11 for the candidates whose numbers are all integers
AllIntegers(c) ==
  /\ Field(c, "states").t = "number" => IsInteger(Field(c, "states"))
  /\ Field(c, "colors").t = "number" => IsInteger(Field(c, "colors"))
  /\ Field(c, "transitions").t = "array" =>
       \A i \in 1..Len(Field(c, "transitions").v) :
         LET t == Field(c, "transitions").v[i]
         IN  /\ Field(t, "newColor").t = "number" => IsInteger(Field(t, "newColor"))
             /\ Field(t, "nextState").t = "number" => IsInteger(Field(t, "nextState"))

C11_AcceptsIffWellFormedIntegers ==
  (result.op = "validateAntConfig" /\ AllIntegers(obj)) =>
    ((result.error.message = "ok") <=> WellFormed(obj))

\* the place of a check in the order of the checks: the check (1 not an
\* object, 2 name, 3 colour count, 4 transitions, 5 transition count, 6 a
\* transition; 0 none), and for a transition its index and its property
Place(check, i, property) == [check |-> check, i |-> i, property |-> property]

\* the first transition, from index i on, that breaks a rule, and the
\* first rule it breaks
RECURSIVE EarliestTransition(_, _)
EarliestTransition(c, i) ==
  LET ts == Field(c, "transitions").v
  IN  IF i > Len(ts) THEN Place(0, -1, "none")
      ELSE IF ~ValidNewColor(c, ts[i]) THEN Place(6, i - 1, "newColor")
      ELSE IF ~ValidTurn(ts[i]) THEN Place(6, i - 1, "turn")
      ELSE IF ~ValidNextState(c, ts[i]) THEN Place(6, i - 1, "nextState")
      ELSE EarliestTransition(c, i + 1)

\* the earliest rule that the candidate breaks
EarliestViolation(c) ==
  IF ~Structured(c) THEN Place(1, -1, "none")
  ELSE IF ~NonEmptyText(Field(c, "name")) THEN Place(2, -1, "none")
  ELSE IF ~ValidColorCount(c) THEN Place(3, -1, "none")
  ELSE IF Field(c, "transitions").t # "array" THEN Place(4, -1, "none")
  ELSE IF ~ValidTransitionCount(c) THEN Place(5, -1, "none")
  ELSE EarliestTransition(c, 1)

\* the place of the check whose error was thrown; a transition that is no
\* object fails where its newColor is read
PlaceOf(error) ==
  CASE error.message = "ok" -> Place(0, -1, "none")
    [] error.message = "Config must be an object" -> Place(1, -1, "none")
    [] error.message = "Config must have a name" -> Place(2, -1, "none")
    [] error.message = "Config must have a positive integer colors" ->
         Place(3, -1, "none")
    [] error.message = "Config must have a transitions array" ->
         Place(4, -1, "none")
    [] error.message = "Expected transitions" -> Place(5, -1, "none")
    [] error.message \in {"must be an object", "TypeError", "newColor out of range"} ->
         Place(6, error.i, "newColor")
    [] error.message = "turn must be 0 (left) or 1 (right)" ->
         Place(6, error.i, "turn")
    [] error.message = "nextState out of range" -> Place(6, error.i, "nextState")

\* the count states * (colors + 1), four times; NaN when states is no number
ExpectedCount(c) ==
  IF Field(c, "states").t # "number" THEN [nan |-> TRUE, q |-> 0]
  ELSE [nan |-> FALSE,
        q |-> ToNumber(Field(c, "states")).d * (ToNumber(Field(c, "colors")).d + 2)]

\* the error thrown is that of the earliest rule the candidate breaks
ReportsEarliest(c, error) ==
  /\ PlaceOf(error) = EarliestViolation(c)
  /\ EarliestViolation(c).check = 5 => error.expected = ExpectedCount(c)

(***************************************************************************)
(* C12: of a candidate that breaks several rules, validateAntConfig        *)
(* reports the error of the earliest broken rule, in the order: not an     *)
(* object, name, colour count, transitions no sequence, transition count   *)
(* (the message holding the expected count), then transition by            *)
(* transition, newColor before turn before nextState.                      *)
(***************************************************************************)
C12_ReportsEarliestViolation ==
  (result.op = "validateAntConfig" /\ EarliestViolation(obj).check # 0) =>
    ReportsEarliest(obj, result.error)

\* C12 for the candidates whose numbers are all integers
C12_ReportsEarliestViolationIntegers ==
  (result.op = "validateAntConfig" /\ AllIntegers(obj)
     /\ EarliestViolation(obj).check # 0) =>
    ReportsEarliest(obj, result.error)

\* a and b are the same JSON value
RECURSIVE SameValue(_, _)
SameValue(a, b) ==
  /\ a.t = b.t
  /\ CASE a.t = "number" -> a.v = b.v /\ IsInteger(a) = IsInteger(b)
       [] a.t = "string" -> a.v = b.v
       [] a.t = "array" ->
            /\ Len(a.v) = Len(b.v)
            /\ \A i \in 1..Len(a.v) : SameValue(a.v[i], b.v[i])
       [] a.t = "object" ->
            /\ DOMAIN a.v = DOMAIN b.v
            /\ \A f \in DOMAIN a.v : SameValue(a.v[f], b.v[f])
       [] OTHER -> TRUE

TicksPerSecond == 1000 \div batchInterval

\* the step() calls made in the unpaused ticks since the accumulator was
\* last zero, less rate times the seconds of those ticks, in units of
\* 1 / TicksPerSecond of a step
Surplus ==
  TicksPerSecond * sinceReset.steps - stepsPerSecond * sinceReset.ticks

\* the rate was constant and the simulation unpaused for k >= 1 ticks that
\* began with an accumulator of zero
HeldFromZero == ~paused /\ sinceReset.ticks > 0

\* C14: with the rate held constant and the simulation unpaused for k
\* consecutive batch ticks starting from an accumulator of zero, the number
\* of step() calls of those ticks differs from rate * k * 0.05 by less than
\* one step.
C14_DrainedWithinOneStep ==
  HeldFromZero =>
    Surplus < TicksPerSecond /\ -Surplus < TicksPerSecond

\* C14, what the code keeps: while no step() call raises an error the number
\* of calls is never above rate * k * 0.05 and at most one step below it
C14_DrainedAtMostOneStepShort ==
  (HeldFromZero /\ ~sinceReset.threw) =>
    Surplus <= 0 /\ -Surplus <= TicksPerSecond

\* C14, the rounding of the doubles alone: no step() call has raised an
\* error and the calls are a whole step short
C14_WholeStepShort ==
  HeldFromZero /\ ~sinceReset.threw /\ -Surplus = TicksPerSecond

\* the last callback of the timer was the first unpaused one since the
\* accumulator was set to zero
FirstTickRan ==
  lastTick.ran /\ ~lastTick.paused /\ sinceReset.ticks = 1

\* C15: every change of the rate and every transition from paused to
\* running sets the step accumulator to zero, and the first unpaused tick
\* after it makes at most floor(rate * 0.05) step() calls.
C15_ResetBeforeNextTick ==
  /\ [][(stepsPerSecond' # stepsPerSecond \/ (paused /\ ~paused'))
          => stepAccumulator' = Zero]_vars
  /\ [](FirstTickRan => /\ lastTick.before = Zero
                        /\ lastTick.calls <= lastTick.rate \div TicksPerSecond)

\* a reset discarded a part of a step and the first tick after it made the
\* step() calls of its own rate
C15_Witness ==
  /\ FirstTickRan
  /\ sinceReset.dropped # Zero
  /\ lastTick.calls > 0
  /\ lastTick.calls = lastTick.rate \div TicksPerSecond

\* the accumulator, the grid and the ants (positions, directions, states)
\* are left as they are
SimulationKept ==
  UNCHANGED <<stepAccumulator, grid, ants>>

\* C16: while paused is true a batch tick makes no step() call and leaves
\* the accumulator, the grid and the ant list unchanged; pausing changes
\* none of them.
C16_PausedTickKeeps ==
  /\ [][(paused /\ nTicks' # nTicks) => (SimulationKept /\ lastTick'.calls = 0)]_vars
  /\ [][(~paused /\ paused') => SimulationKept]_vars

\* a tick ran while paused, with an ant on the grid and a part of a step in
\* the accumulator
C16_Witness ==
  /\ paused
  /\ lastTick.ran /\ lastTick.paused
  /\ ants # <<>>
  /\ stepAccumulator # Zero

(***************************************************************************)
(* The speed slider.                                                       *)
(***************************************************************************)
\* speedToSlider(sliderToSpeed(v)) - v for the slider value v the rate was
\* last read from
RoundTripError == speedToSlider(stepsPerSecond) - speedSlider

\* C17 as stated: for every slider value v in [0, 100],
\* speedToSlider(sliderToSpeed(v)) differs from v by at most 1.
C17_RoundTripWithinOne ==
  RoundTripError <= 1 /\ -RoundTripError <= 1

\* C17 as the code has it: speedToSlider(sliderToSpeed(v)) differs from v by
\* at most 3, by at most 1 for v >= 9, and not at all for v >= 16.
C17_RoundTripWithinThree ==
  /\ speedSlider \in 0..SLIDER_STEPS
  /\ stepsPerSecond = sliderToSpeed(speedSlider)
  /\ RoundTripError <= 3 /\ -RoundTripError <= 3
  /\ speedSlider >= 9 => (RoundTripError <= 1 /\ -RoundTripError <= 1)
  /\ speedSlider >= 16 => RoundTripError = 0

\* the slider was moved to 3: the rate is 1 and speedToSlider gives 0
C17_Witness ==
  /\ nOps = 1
  /\ speedSlider = 3
  /\ stepsPerSecond = SPEED_MIN
  /\ RoundTripError = -3

(***************************************************************************)
(* The move that finds no entry.                                           *)
(***************************************************************************)
\* the moves of the step just made that found no entry, neither at the
\* primary index nor at the fallback index
FoundNoEntry ==
  {j \in 1..Len(lastOp'.trace) : lastOp'.trace[j].branch = "none"}

\* the move of ant j, on the colour it finds when its turn comes, leaves the
\* ant and every grid cell as they are, and the step leaves the ant so
NoAction(j) ==
  LET found == FoundBy(ants, grid, rows, cols, j)
      gj == IF found = -1 THEN grid
            ELSE WriteCell(grid, ants[j].y, ants[j].x, found)
      m == move(ants[j], gj, rows, cols)
  IN  /\ ~m.threw
      /\ m.ant = ants[j]
      /\ m.grid = gj
      /\ ants'[j] = ants[j]

\* a step in which some move finds no entry: that ant and the grid are left
\* alone by the move (by the step, where no move finds an entry)
NoEntryNoAction ==
  /\ \A j \in FoundNoEntry : NoAction(j)
  /\ FoundNoEntry = 1..Len(ants) => grid' = grid

\* C18: when the primary and the fallback lookup both yield no entry,
\* Ant.move leaves the ant's x, y, direction and state and every grid cell
\* unchanged, and the other ants of the list still make their moves in the
\* same step.
C18_NoEntryNoAction ==
  [][(lastOp'.op = "step" /\ FoundNoEntry # {})
       => (NoEntryNoAction /\ ~lastOp'.threw /\ SequentialStep)]_vars

\* C18 for the steps that complete
C18_NoEntryNoActionCompleted ==
  [][(lastOp'.op = "step" /\ FoundNoEntry # {} /\ ~lastOp'.threw)
       => (NoEntryNoAction /\ SequentialStep)]_vars

\* C18, the move alone, also in a step that another ant ends with an error
C18_NoEntryMoveKeeps ==
  [][(lastOp'.op = "step" /\ FoundNoEntry # {}) => NoEntryNoAction]_vars

\* a completed step in which one ant found no entry and another ant moved
C18_Completed ==
  /\ lastOp.op = "step"
  /\ ~lastOp.threw
  /\ \E i, j \in 1..Len(lastOp.trace) :
       /\ lastOp.trace[i].branch = "none"
       /\ lastOp.trace[j].branch \notin {"none", "threw"}

(***************************************************************************)
(* The batch tick.                                                         *)
(***************************************************************************)
\* the accumulator of before the tick plus rate times the 0.05 seconds of a
\* tick, as the double the code computes
Topped ==
  DoubleAdd(stepAccumulator,
            DoubleDivide(stepsPerSecond * batchInterval, 1000))

\* an unpaused batch tick makes floor(Topped) calls of step() and leaves
\* Topped less that number in the accumulator
DrainsIntegerPart ==
  /\ lastTick'.calls = MathFloor(Topped)
  /\ DoubleAdd(stepAccumulator', FromInteger(lastTick'.calls)) = Topped
  /\ LessThanOne(stepAccumulator')

\* C19: on each unpaused batch tick the number of step() calls executed
\* equals floor(accumulator_before + rate * 0.05) and the accumulator
\* afterwards equals accumulator_before + rate * 0.05 minus that number;
\* after every tick 0 <= accumulator < 1.
C19_DrainsIntegerPart ==
  /\ [][(nTicks' # nTicks /\ ~paused) => DrainsIntegerPart]_vars
  /\ [](lastTick.ran => LessThanOne(stepAccumulator))

\* C19 for the ticks in which no step() call raises an error
C19_DrainsIntegerPartCompleted ==
  [][(nTicks' # nTicks /\ ~paused /\ ~lastTick'.threw) => DrainsIntegerPart]_vars

\* C19, the range of the accumulator while no step() call has raised an
\* error since the accumulator was last set to zero
C19_BelowOneUnlessThrown ==
  ~sinceReset.threw => LessThanOne(stepAccumulator)

\* a tick that made two calls of step() and kept a part of a step
C19_Completed ==
  /\ lastTick.ran /\ ~lastTick.paused /\ ~lastTick.threw
  /\ lastTick.calls = 2
  /\ lastTick.before # Zero
  /\ stepAccumulator # Zero

(***************************************************************************)
(* The ants of an engine whose callers add ants inside the grid.           *)
(***************************************************************************)
\* ant a is inside the grid and faces one of the four directions
PlacedAndFacing(a) ==
  /\ InGrid(a.x, a.y, rows, cols)
  /\ a.direction \in {0, 1, 2, 3}

\* the state of ant a is in [0, states) of its own configuration
StateWithin(a) == 0 <= a.state /\ a.state < statesOf(a.config)

RowShape(y) ==
  /\ DOMAIN grid[y] = 0..(cols - 1)
  /\ \A x \in DOMAIN grid[y] : grid[y][x] \in Nat

\* C21: after any sequence of setConfig, addAnt, step and resize the grid
\* has exactly rows rows each of exactly cols cells and every cell holds a
\* non-negative integer colour index; no operation grows a row or writes a
\* cell outside [0, rows) x [0, cols).
C21_GridShape ==
  /\ DOMAIN grid = 0..(rows - 1)
  /\ \A y \in DOMAIN grid : RowShape(y)

\* C21, the rows alone: no operation adds or removes a row
C21_RowCount == DOMAIN grid = 0..(rows - 1)

\* C21 where every ant stands inside the grid before a step: the step
\* leaves the shape of the grid as it is
C21_InGridStepKeepsShape ==
  [][(lastOp'.op = "step" /\ C21_GridShape
        /\ \A i \in 1..Len(ants) : InGrid(ants[i].x, ants[i].y, rows, cols))
       => C21_GridShape']_vars

\* a step wrote a cell at a key outside the columns of the grid
C21_RowGrown ==
  /\ lastOp.op = "step"
  /\ \E y \in DOMAIN grid : \E x \in DOMAIN grid[y] :
       (x < 0 \/ x >= cols) /\ grid[y][x] > 0

(***************************************************************************)
(* The batch timers.                                                       *)
(***************************************************************************)
\* C22: after any sequence of setup, rate changes, pauses and resumes at
\* most one batch interval timer is active, the one simulationInterval
\* holds, so that the callbacks that add to and drain the accumulator come
\* from one timer, once in each of its periods.
C22_OneTimer ==
  /\ Cardinality(activeTimers) <= 1
  /\ activeTimers \subseteq {simulationInterval}

\* the button was pressed twice, to pause and to resume, so that the timer
\* of setup() was replaced, and a callback of the new timer has run
C22_Witness ==
  /\ nOps = 2
  /\ ~paused
  /\ speedSlider = InitialSlider
  /\ ants = <<>>
  /\ nTicks > sinceReset.ticks
  /\ sinceReset.ticks > 0
  /\ activeTimers = {simulationInterval}

(***************************************************************************)
(* The first step after a reset of the accumulator.                        *)
(***************************************************************************)
\* ceil(20 / rate): the ticks after which rate * 0.05 a tick adds up to a
\* whole step
TicksToStep == (TicksPerSecond + stepsPerSecond - 1) \div stepsPerSecond

\* the simulation is unpaused, no event can pause it or change the rate any
\* more, and the timer still fires the n ticks that follow the last reset of
\* the accumulator
KeepsFiring(n) ==
  /\ ~paused
  /\ nOps = MaxEvents
  /\ sinceReset.ticks <= n
  /\ nTicks + (n - sinceReset.ticks) <= MaxTicks

\* C23: if the simulation stays unpaused, the rate (>= 1) is not changed
\* again and batch ticks keep firing, then a step() call is eventually
\* executed, within at most ceil(20 / rate) ticks of the last reset of the
\* accumulator.
C23_StepWithinTicks ==
  /\ [](stepsPerSecond >= 1)
  /\ []((~paused /\ sinceReset.ticks >= TicksToStep) => sinceReset.steps > 0)
  /\ (KeepsFiring(TicksToStep) ~> sinceReset.steps > 0)

\* C23 as the code has it: a step() call is executed within at most
\* ceil(20 / rate) + 1 ticks of the last reset
C23_StepWithinOneMoreTick ==
  /\ []((~paused /\ sinceReset.ticks >= TicksToStep + 1) => sinceReset.steps > 0)
  /\ (KeepsFiring(TicksToStep + 1) ~> sinceReset.steps > 0)

\* at 2 steps a second the first step() call came with the eleventh tick
C23_EleventhTick ==
  /\ ~paused
  /\ stepsPerSecond = 2
  /\ sinceReset.ticks = TicksToStep + 1
  /\ sinceReset.steps = 1
  /\ lastTick.calls = 1

\* C23, the postponement: a rate change reset the accumulator when it held
\* a part of a step, and after MaxTicks - 1 unpaused ticks at rates of 2 and
\* more no step() call has been executed
C23_Postponed ==
  /\ nTicks = MaxTicks - 1
  /\ sinceReset.ticks + 1 = nTicks
  /\ sinceReset.dropped # Zero
  /\ stepsPerSecond >= 2
  /\ lastOp.op = "new"
  /\ ants = <<>>

====
